---- MODULE Spec2Model ----
(***************************************************************************)
(* Model of nsqd/topic.go: a Topic with its ingest Router goroutine, its   *)
(* lazily started MessagePump goroutine, the per-message dispatch          *)
(* goroutines of the fan-out, GetChannel, PutMessage and Close.            *)
(*                                                                         *)
(* Goroutines take one step per synchronisation point (channel operation,  *)
(* lock operation, notification).  Message values are pointers: the        *)
(* queues hold addresses and `heap` holds the Message structs.             *)
(***************************************************************************)
EXTENDS Naturals, Sequences, FiniteSets, TLC

\* ---- bounds of the model
MaxMsgs == 3          \* number of PutMessage calls
MaxChannels == 2      \* channel names are 1..MaxChannels
MaxMutations == 1     \* mutations channels apply to the copies they received
MaxPuts == 7          \* number of PutMessage calls of the runs that fill the ingest buffer

\* ---- program constants
IncomingCap == 5      \* make(chan *nsq.Message, 5)
memQueueSize == 1     \* NewTopic's memQueueSize argument

ChannelNames == 1..MaxChannels
NoMsg == <<"nil", 0, 0>>
\* the channels whose PutMessage never returns, in the runs with a slow channel
SlowChannels == {1}

VARIABLES
    channelMap,           \* t.channelMap: name -> *Channel
    rwWriter,             \* t.RWMutex: 0, or the name argument of the GetChannel holding Lock
    rwReaders,            \* t.RWMutex: the goroutines holding RLock
    incomingMessageChan,  \* t.incomingMessageChan
    memoryMsgChan,        \* t.memoryMsgChan
    backend,              \* records of t.backend not yet read from ReadChan
    backendCloseCalls,    \* number of t.backend.Close() calls
    backendCloseRes,      \* what the last t.backend.Close() returned
    messagePumpStarter,   \* sync.Once: TRUE once Do has run
    heap,                 \* address -> Message struct
    routerPc, routerMsg,  \* Router goroutine: its position and its `msg`
    pumpPc, pumpMsg,      \* MessagePump goroutine
    fanTodo,              \* channels the pump's range loop has not reached yet
    observers,            \* loops registered with notify.Observe
    pending,              \* observers the running notify.Post still has to reach
    closePc, closeSnap, closeErr, closeRet,   \* Topic.Close call
    tasks,                \* spawned `go channel.PutMessage(chanMsg)` not yet run
    delivered,            \* per channel: the messages PutMessage was invoked with
    chanCloseCalls,       \* per channel: number of Close() calls on it
    chanCloseErrs,        \* channels whose Close() returned an error
    nextId,               \* number of PutMessage calls accepted so far
    memLog, backendLog,   \* ids the Router sent to memory / appended to the backend
    routeErr,             \* <<id, kind>> of messages the Router dropped or tore
    pumpLog,              \* <<source, id>> in the order the pump received
    pumpStarts,           \* number of `go t.MessagePump()`
    chanCreated,          \* name -> number of NewChannel calls
    returned,             \* name -> the channel instances GetChannel has returned
    mutLog                \* <<channel, id, field>> mutated by the channel

vars == <<channelMap, rwWriter, rwReaders, incomingMessageChan, memoryMsgChan, backend,
          backendCloseCalls, backendCloseRes, messagePumpStarter, heap, routerPc, routerMsg,
          pumpPc, pumpMsg, fanTodo, observers, pending, closePc, closeSnap,
          closeErr, closeRet, tasks, delivered, chanCloseCalls,
          chanCloseErrs, nextId, memLog, backendLog, routeErr,
          pumpLog, pumpStarts, chanCreated, returned, mutLog>>

\* variable groups, for UNCHANGED
lockVars   == <<channelMap, rwWriter, rwReaders, messagePumpStarter, pumpStarts, chanCreated, returned>>
queueVars  == <<incomingMessageChan, memoryMsgChan, backend>>
routerVars == <<routerPc, routerMsg, memLog, backendLog, routeErr>>
pumpVars   == <<pumpPc, pumpMsg, fanTodo, pumpLog>>
closeVars  == <<closePc, closeSnap, closeErr, closeRet,
                backendCloseCalls, backendCloseRes, chanCloseCalls, chanCloseErrs>>
taskVars   == <<tasks, delivered>>
putVars    == <<nextId>>

\* ---- sequences
RECURSIVE SeqToSet(_)
SeqToSet(s) == IF s = <<>> THEN {} ELSE {Head(s)} \cup SeqToSet(Tail(s))

RECURSIVE Count(_, _)
Count(s, x) == IF s = <<>> THEN 0
               ELSE (IF Head(s) = x THEN 1 ELSE 0) + Count(Tail(s), x)

RECURSIVE SelectIds(_, _)
SelectIds(s, src) == IF s = <<>> THEN <<>>
                     ELSE IF Head(s)[1] = src THEN <<Head(s)[2]>> \o SelectIds(Tail(s), src)
                     ELSE SelectIds(Tail(s), src)

IsIncreasing(s) == \A i, j \in 1..Len(s) : i < j => s[i] < s[j]

\* ---- nsq.Message
\* An address names the allocation: <<site, message id, channel>>.
Addr(site, id, ch) == <<site, id, ch>>
IdOf(a) == a[2]

\* nsq.NewMessage(id, body): a new struct stamped with the current time
NewMessage(id, body, now) == [id |-> id, body |-> body, timestamp |-> now, attempts |-> 0]

\* the time a message is created by its producer and the (later) time of a fan-out
ProducerTime(id) == id
\* the body of the id-th message the producers submit
BodyOf(id) == <<"body", id>>
FanoutTime == MaxMsgs + 2

\* msg.Encode(): timestamp, id, body
Encode(m) == <<m.timestamp, m.id, m.body>>
\* a record of which only the timestamp and id reached the disk
Torn(buf) == SubSeq(buf, 1, 2)
\* nsq.DecodeMessage(buf)
DecodeOk(buf) == Len(buf) = 3
DecodeMessage(buf) == [id |-> buf[2], body |-> buf[3], timestamp |-> buf[1], attempts |-> 0]

\* NewChannel(...): the k-th instance created for a name
NewChannel(name, k) == <<name, k>>

\* a constructor that starts the pump along with the Router
Init_PumpStarted ==
    /\ channelMap = <<>>
    /\ rwWriter = 0
    /\ rwReaders = {}
    /\ incomingMessageChan = <<>>
    /\ memoryMsgChan = <<>>
    /\ backend = <<>>
    /\ backendCloseCalls = 0
    /\ backendCloseRes = "none"
    /\ messagePumpStarter = FALSE
    /\ heap = <<>>
    /\ routerPc = "observe"      \* `go topic.Router()` has been issued
    /\ routerMsg = NoMsg
    /\ pumpPc = "observe"
    /\ pumpMsg = NoMsg
    /\ fanTodo = {}
    /\ observers = {}
    /\ pending = {}
    /\ closePc = "idle"
    /\ closeSnap = {}
    /\ closeErr = "nil"
    /\ closeRet = "none"
    /\ tasks = {}
    /\ delivered = [c \in ChannelNames |-> <<>>]
    /\ chanCloseCalls = [c \in ChannelNames |-> 0]
    /\ chanCloseErrs = {}
    /\ nextId = 0
    /\ memLog = <<>>
    /\ backendLog = <<>>
    /\ routeErr = {}
    /\ pumpLog = <<>>
    /\ pumpStarts = 0
    /\ chanCreated = [c \in ChannelNames |-> 0]
    /\ returned = [c \in ChannelNames |-> {}]
    /\ mutLog = {}

\* the topic NewTopic returns
Init ==
    /\ channelMap = <<>>
    /\ rwWriter = 0
    /\ rwReaders = {}
    /\ incomingMessageChan = <<>>
    /\ memoryMsgChan = <<>>
    /\ backend = <<>>
    /\ backendCloseCalls = 0
    /\ backendCloseRes = "none"
    /\ messagePumpStarter = FALSE
    /\ heap = <<>>
    /\ routerPc = "observe"      \* `go topic.Router()` has been issued
    /\ routerMsg = NoMsg
    /\ pumpPc = "none"
    /\ pumpMsg = NoMsg
    /\ fanTodo = {}
    /\ observers = {}
    /\ pending = {}
    /\ closePc = "idle"
    /\ closeSnap = {}
    /\ closeErr = "nil"
    /\ closeRet = "none"
    /\ tasks = {}
    /\ delivered = [c \in ChannelNames |-> <<>>]
    /\ chanCloseCalls = [c \in ChannelNames |-> 0]
    /\ chanCloseErrs = {}
    /\ nextId = 0
    /\ memLog = <<>>
    /\ backendLog = <<>>
    /\ routeErr = {}
    /\ pumpLog = <<>>
    /\ pumpStarts = 0
    /\ chanCreated = [c \in ChannelNames |-> 0]
    /\ returned = [c \in ChannelNames |-> {}]
    /\ mutLog = {}

\* ---- RWMutex
CanLock == rwWriter = 0 /\ rwReaders = {}
CanRLock == rwWriter = 0

\* ---- GetChannel (topic.go 42-55)
\* t.Lock()
GetChannelLock(name) ==
    /\ CanLock
    /\ rwWriter' = name
    /\ UNCHANGED <<channelMap, rwReaders, messagePumpStarter, pumpStarts, chanCreated, returned>>
    /\ UNCHANGED <<queueVars, routerVars, pumpVars, closeVars, taskVars, putVars>>
    /\ UNCHANGED <<heap, observers, pending, mutLog>>

\* the map after `channel, ok := t.channelMap[name]; if !ok { ... }`
GetChannelCreates(name) == name \notin DOMAIN channelMap

\* a pump start that is not guarded by the Once
OnceRuns_Always == TRUE

\* messagePumpStarter.Do: whether the function runs
OnceRuns == ~messagePumpStarter

\* lines 46-54 and the deferred t.Unlock()
GetChannelBody ==
    /\ rwWriter # 0
    /\ LET name == rwWriter
           creates == GetChannelCreates(name)
           channel == IF creates THEN NewChannel(name, chanCreated[name] + 1)
                      ELSE channelMap[name]
       IN /\ channelMap' = [n \in DOMAIN channelMap \cup {name} |->
                               IF n = name THEN channel ELSE channelMap[n]]
          /\ chanCreated' = [chanCreated EXCEPT ![name] = IF creates THEN @ + 1 ELSE @]
          /\ returned' = [returned EXCEPT ![name] = @ \cup {channel}]
    /\ IF OnceRuns
       THEN /\ messagePumpStarter' = TRUE
            /\ pumpStarts' = pumpStarts + 1
            /\ pumpPc' = "observe"
       ELSE UNCHANGED <<messagePumpStarter, pumpStarts, pumpPc>>
    /\ rwWriter' = 0
    /\ UNCHANGED rwReaders
    /\ UNCHANGED <<queueVars, routerVars, closeVars, taskVars, putVars>>
    /\ UNCHANGED <<heap, observers, pending, mutLog, pumpMsg, fanTodo, pumpLog>>

\* ---- PutMessage (topic.go 59-62)
\* an ingest buffer that takes any number of messages
CanSend_Unbounded == TRUE

\* `t.incomingMessageChan <- msg` proceeds: the buffer of capacity 5 has room
CanSend == Len(incomingMessageChan) < IncomingCap

\* the call that submits the next message, of at most n; the caller is blocked
\* in the send for as long as the buffer is full
PutMessageUpTo(n) ==
    /\ nextId < n
    /\ CanSend
    /\ LET id == nextId + 1
           msg == Addr("p", id, 0)
       IN /\ heap' = heap @@ (msg :> NewMessage(id, BodyOf(id), ProducerTime(id)))
          /\ incomingMessageChan' = Append(incomingMessageChan, msg)
          /\ nextId' = id
    /\ UNCHANGED <<memoryMsgChan, backend>>
    /\ UNCHANGED <<lockVars, routerVars, pumpVars, closeVars, taskVars>>
    /\ UNCHANGED <<observers, pending, mutLog>>

PutMessage == PutMessageUpTo(MaxMsgs)

\* ---- Router (topic.go 103-132)
\* notify.Observe(t.name+".topic_close", exitChan)
RouterObserve ==
    /\ routerPc = "observe"
    /\ routerPc' = "select"
    /\ observers' = observers \cup {"router"}
    /\ UNCHANGED <<routerMsg, memLog, backendLog, routeErr>>
    /\ UNCHANGED <<lockVars, queueVars, pumpVars, closeVars, taskVars, putVars>>
    /\ UNCHANGED <<heap, pending, mutLog>>

\* a Router that never tries the memory buffer
MemoryReady_Never == FALSE

\* a memory buffer that takes one message more than its capacity
MemoryReady_OffByOne == Len(memoryMsgChan) <= memQueueSize

\* the inner select: `case t.memoryMsgChan <- msg` is ready
MemoryReady == Len(memoryMsgChan) < memQueueSize

\* outcomes of the default branch: msg.Encode() fails; t.backend.Put fails;
\* Put stores the record; Put stores a record the disk tore
PutOutcomes == {"encodeErr", "putErr", "ok", "torn"}

\* the queue after t.backend.Put(data) with the given outcome
BackendPut(q, data, outcome) ==
    CASE outcome = "ok" -> Append(q, data)
      [] outcome = "torn" -> Append(q, Torn(data))
      [] OTHER -> q

\* a spill whose Put is issued asynchronously and overtakes the previous one
Spill_Unordered(q, m, outcome) ==
    IF outcome = "encodeErr" \/ q = <<>>
    THEN (IF outcome = "encodeErr" THEN q ELSE BackendPut(q, Encode(m), outcome))
    ELSE BackendPut(SubSeq(q, 1, Len(q) - 1), Encode(m), outcome) \o <<q[Len(q)]>>

\* a default branch without the `continue`: Put is called after a failed Encode
Spill_PutsAfterEncodeError(q, m, outcome) ==
    BackendPut(q, Encode(m), IF outcome = "encodeErr" THEN "ok" ELSE outcome)

\* the default branch (lines 115-124): encode, then Put unless encoding failed
Spill(q, m, outcome) ==
    IF outcome = "encodeErr" THEN q ELSE BackendPut(q, Encode(m), outcome)

\* a Router whose exit case leaves only the select, not the loop
RouterRecv_AfterExit ==
    /\ routerPc \in {"select", "exited"}
    /\ incomingMessageChan # <<>>
    /\ routerMsg' = Head(incomingMessageChan)
    /\ incomingMessageChan' = Tail(incomingMessageChan)
    /\ routerPc' = "inner"
    /\ UNCHANGED <<memoryMsgChan, backend, memLog, backendLog, routeErr>>
    /\ UNCHANGED <<lockVars, pumpVars, closeVars, taskVars, putVars>>
    /\ UNCHANGED <<heap, observers, pending, mutLog>>

\* case msg = <-t.incomingMessageChan (line 110)
RouterRecv ==
    /\ routerPc = "select"
    /\ incomingMessageChan # <<>>
    /\ routerMsg' = Head(incomingMessageChan)
    /\ incomingMessageChan' = Tail(incomingMessageChan)
    /\ routerPc' = "inner"
    /\ UNCHANGED <<memoryMsgChan, backend, memLog, backendLog, routeErr>>
    /\ UNCHANGED <<lockVars, pumpVars, closeVars, taskVars, putVars>>
    /\ UNCHANGED <<heap, observers, pending, mutLog>>

\* an inner select that goes on to the default branch after its send
RouterInnerSelect_Both ==
    /\ routerPc = "inner"
    /\ IF MemoryReady
       THEN /\ memoryMsgChan' = Append(memoryMsgChan, routerMsg)
            /\ memLog' = Append(memLog, IdOf(routerMsg))
       ELSE UNCHANGED <<memoryMsgChan, memLog>>
    /\ routerPc' = "default"
    /\ UNCHANGED <<routerMsg, backendLog, routeErr>>
    /\ UNCHANGED <<incomingMessageChan, backend>>
    /\ UNCHANGED <<lockVars, pumpVars, closeVars, taskVars, putVars>>
    /\ UNCHANGED <<heap, observers, pending, mutLog>>

\* the inner select (lines 111-114): the non-blocking send to memoryMsgChan,
\* or the choice of the default branch when the send cannot proceed
RouterInnerSelect ==
    /\ routerPc = "inner"
    /\ IF MemoryReady
       THEN /\ memoryMsgChan' = Append(memoryMsgChan, routerMsg)
            /\ memLog' = Append(memLog, IdOf(routerMsg))
            /\ routerMsg' = NoMsg
            /\ routerPc' = "select"
       ELSE /\ routerPc' = "default"
            /\ UNCHANGED <<memoryMsgChan, memLog, routerMsg>>
    /\ UNCHANGED <<backendLog, routeErr>>
    /\ UNCHANGED <<incomingMessageChan, backend>>
    /\ UNCHANGED <<lockVars, pumpVars, closeVars, taskVars, putVars>>
    /\ UNCHANGED <<heap, observers, pending, mutLog>>

\* the default branch (lines 115-125): msg.Encode() and t.backend.Put(data),
\* then back to the outer select
RouterDefault ==
    /\ routerPc = "default"
    /\ \E outcome \in PutOutcomes :
         /\ backend' = Spill(backend, heap[routerMsg], outcome)
         /\ backendLog' = IF outcome \in {"ok", "torn"}
                          THEN Append(backendLog, IdOf(routerMsg)) ELSE backendLog
         /\ routeErr' = IF outcome = "ok" THEN routeErr
                        ELSE routeErr \cup {<<IdOf(routerMsg), outcome>>}
    /\ routerMsg' = NoMsg
    /\ routerPc' = "select"
    /\ UNCHANGED <<incomingMessageChan, memoryMsgChan, memLog>>
    /\ UNCHANGED <<lockVars, pumpVars, closeVars, taskVars, putVars>>
    /\ UNCHANGED <<heap, observers, pending, mutLog>>

\* case <-exitChan: notify.Ignore(...); return
RouterExit ==
    /\ routerPc = "select"
    /\ "router" \in pending
    /\ pending' = pending \ {"router"}
    /\ observers' = observers \ {"router"}
    /\ routerPc' = "exited"
    /\ UNCHANGED <<routerMsg, memLog, backendLog, routeErr>>
    /\ UNCHANGED <<lockVars, queueVars, pumpVars, closeVars, taskVars, putVars>>
    /\ UNCHANGED <<heap, mutLog>>

\* ---- MessagePump (topic.go 67-99)
PumpObserve ==
    /\ pumpPc = "observe"
    /\ pumpPc' = "select"
    /\ observers' = observers \cup {"pump"}
    /\ UNCHANGED <<pumpMsg, fanTodo, pumpLog>>
    /\ UNCHANGED <<lockVars, queueVars, routerVars, closeVars, taskVars, putVars>>
    /\ UNCHANGED <<heap, pending, mutLog>>

\* case msg = <-t.memoryMsgChan
PumpRecvMemory ==
    /\ pumpPc = "select"
    /\ memoryMsgChan # <<>>
    /\ pumpMsg' = Head(memoryMsgChan)
    /\ memoryMsgChan' = Tail(memoryMsgChan)
    /\ pumpLog' = Append(pumpLog, <<"mem", IdOf(Head(memoryMsgChan))>>)
    /\ pumpPc' = "rlock"
    /\ UNCHANGED <<incomingMessageChan, backend, fanTodo>>
    /\ UNCHANGED <<lockVars, routerVars, closeVars, taskVars, putVars>>
    /\ UNCHANGED <<heap, observers, pending, mutLog>>

\* a backend case without the `continue`: what DecodeMessage made of the
\* malformed record is fanned out
PumpRecvBackend_NoContinue ==
    /\ pumpPc = "select"
    /\ backend # <<>>
    /\ backendCloseCalls = 0
    /\ LET buf == Head(backend)
           msg == Addr("d", buf[2], 0)
       IN
       /\ backend' = Tail(backend)
       /\ pumpLog' = Append(pumpLog, <<"backend", buf[2]>>)
       /\ heap' = heap @@ (msg :> IF DecodeOk(buf) THEN DecodeMessage(buf)
                                   ELSE NewMessage(buf[2], <<>>, buf[1]))
       /\ pumpMsg' = msg
       /\ pumpPc' = "rlock"
    /\ UNCHANGED <<incomingMessageChan, memoryMsgChan, fanTodo>>
    /\ UNCHANGED <<lockVars, routerVars, closeVars, taskVars, putVars>>
    /\ UNCHANGED <<observers, pending, mutLog>>

\* case buf = <-t.backend.ReadChan(): decode, `continue` on error
PumpRecvBackend ==
    /\ pumpPc = "select"
    /\ backend # <<>>
    /\ backendCloseCalls = 0
    /\ backendCloseRes = "none"
    /\ LET buf == Head(backend) IN
       /\ backend' = Tail(backend)
       /\ pumpLog' = Append(pumpLog, <<"backend", buf[2]>>)
       /\ IF DecodeOk(buf)
          THEN LET msg == Addr("d", DecodeMessage(buf).id, 0) IN
               /\ heap' = heap @@ (msg :> DecodeMessage(buf))
               /\ pumpMsg' = msg
               /\ pumpPc' = "rlock"
          ELSE /\ pumpMsg' = NoMsg
               /\ UNCHANGED <<heap, pumpPc>>
    /\ UNCHANGED <<incomingMessageChan, memoryMsgChan, fanTodo>>
    /\ UNCHANGED <<lockVars, routerVars, closeVars, taskVars, putVars>>
    /\ UNCHANGED <<observers, pending, mutLog>>

\* case <-exitChan: notify.Ignore(...); return
PumpExit ==
    /\ pumpPc = "select"
    /\ "pump" \in pending
    /\ pending' = pending \ {"pump"}
    /\ observers' = observers \ {"pump"}
    /\ pumpPc' = "exited"
    /\ UNCHANGED <<pumpMsg, fanTodo, pumpLog>>
    /\ UNCHANGED <<lockVars, queueVars, routerVars, closeVars, taskVars, putVars>>
    /\ UNCHANGED <<heap, mutLog>>

\* a pump that ranges over the map without taking the shared lock
PumpRLock_NoLock ==
    /\ pumpPc = "rlock"
    /\ pumpPc' = "fanout"
    /\ fanTodo' = DOMAIN channelMap
    /\ UNCHANGED <<pumpMsg, pumpLog>>
    /\ UNCHANGED <<channelMap, rwWriter, rwReaders, messagePumpStarter, pumpStarts, chanCreated, returned>>
    /\ UNCHANGED <<queueVars, routerVars, closeVars, taskVars, putVars>>
    /\ UNCHANGED <<heap, observers, pending, mutLog>>

\* t.RLock() and the start of `range t.channelMap`
PumpRLock ==
    /\ pumpPc = "rlock"
    /\ CanRLock
    /\ rwReaders' = rwReaders \cup {"pump"}
    /\ pumpPc' = "fanout"
    /\ fanTodo' = DOMAIN channelMap
    /\ UNCHANGED <<pumpMsg, pumpLog>>
    /\ UNCHANGED <<channelMap, rwWriter, messagePumpStarter, pumpStarts, chanCreated, returned>>
    /\ UNCHANGED <<queueVars, routerVars, closeVars, taskVars, putVars>>
    /\ UNCHANGED <<heap, observers, pending, mutLog>>

\* a copy that keeps the time NewMessage stamped it with
CopyMessage_FreshTimestamp(m) == NewMessage(m.id, m.body, FanoutTime)

\* chanMsg := nsq.NewMessage(msg.Id, msg.Body); chanMsg.Timestamp = msg.Timestamp
CopyMessage(m) == [NewMessage(m.id, m.body, FanoutTime) EXCEPT !.timestamp = m.timestamp]

\* a fan-out that hands the pump's own instance to every channel
ChanMsgAddr_Shared(msg, c) == msg

\* the address of the instance handed to channel c for the pump's msg
ChanMsgAddr(msg, c) == Addr("c", IdOf(msg), c)

\* a fan-out that calls channel.PutMessage itself instead of issuing a
\* goroutine: the range ends only if none of the calls blocks
PumpFanout_Synchronous ==
    /\ pumpPc = "fanout"
    /\ fanTodo \cap SlowChannels = {}
    /\ heap' = [a \in DOMAIN heap \cup {ChanMsgAddr(pumpMsg, c) : c \in fanTodo} |->
                   IF a \in DOMAIN heap THEN heap[a] ELSE CopyMessage(heap[pumpMsg])]
    /\ delivered' = [c \in ChannelNames |->
                        IF c \in fanTodo THEN Append(delivered[c], ChanMsgAddr(pumpMsg, c))
                        ELSE delivered[c]]
    /\ fanTodo' = {}
    /\ rwReaders' = rwReaders \ {"pump"}
    /\ pumpPc' = "select"
    /\ pumpMsg' = NoMsg
    /\ UNCHANGED <<pumpLog, tasks>>
    /\ UNCHANGED <<channelMap, rwWriter, messagePumpStarter, pumpStarts, chanCreated, returned>>
    /\ UNCHANGED <<queueVars, routerVars, closeVars, putVars>>
    /\ UNCHANGED <<observers, pending, mutLog>>

\* the range loop (each iteration copies and issues `go channel.PutMessage(chanMsg)`),
\* then t.RUnlock() and back to the select
PumpFanout ==
    /\ pumpPc = "fanout"
    /\ heap' = [a \in DOMAIN heap \cup {ChanMsgAddr(pumpMsg, c) : c \in fanTodo} |->
                   IF a \in DOMAIN heap THEN heap[a] ELSE CopyMessage(heap[pumpMsg])]
    /\ tasks' = tasks \cup {[ch |-> c, msg |-> ChanMsgAddr(pumpMsg, c)] : c \in fanTodo}
    /\ fanTodo' = {}
    /\ rwReaders' = rwReaders \ {"pump"}
    /\ pumpPc' = "select"
    /\ pumpMsg' = NoMsg
    /\ UNCHANGED <<pumpLog, delivered>>
    /\ UNCHANGED <<channelMap, rwWriter, messagePumpStarter, pumpStarts, chanCreated, returned>>
    /\ UNCHANGED <<queueVars, routerVars, closeVars, putVars>>
    /\ UNCHANGED <<observers, pending, mutLog>>

\* a dispatch goroutine runs: channel.PutMessage(chanMsg) is invoked
TaskRun(t) ==
    /\ t \in tasks
    /\ tasks' = tasks \ {t}
    /\ delivered' = [delivered EXCEPT ![t.ch] = Append(@, t.msg)]
    /\ UNCHANGED <<lockVars, queueVars, routerVars, pumpVars, closeVars, putVars>>
    /\ UNCHANGED <<heap, observers, pending, mutLog>>

\* ---- Close (topic.go 134-155)
\* notify.Post(t.name+".topic_close", nil): sends to every registered observer
CloseCall ==
    /\ closePc = "idle"
    /\ closePc' = "post"
    /\ pending' = observers
    /\ UNCHANGED <<closeSnap, closeErr, closeRet,
                   backendCloseCalls, backendCloseRes, chanCloseCalls, chanCloseErrs>>
    /\ UNCHANGED <<lockVars, queueVars, routerVars, pumpVars, taskVars, putVars>>
    /\ UNCHANGED <<heap, observers, mutLog>>

\* Post has returned; `range t.channelMap` starts, with no lock taken
CloseRange ==
    /\ closePc = "post"
    /\ pending = {}
    /\ closePc' = "range"
    /\ closeSnap' = DOMAIN channelMap
    /\ UNCHANGED <<closeErr, closeRet, backendCloseCalls, backendCloseRes, chanCloseCalls, chanCloseErrs>>
    /\ UNCHANGED <<lockVars, queueVars, routerVars, pumpVars, taskVars, putVars>>
    /\ UNCHANGED <<heap, observers, pending, mutLog>>

\* the channels the range of Close has produced so far
closeVisited == {c \in ChannelNames : chanCloseCalls[c] > 0}

\* err = channel.Close() for the next channel of the range
CloseChannel(c, fails) ==
    /\ closePc = "range"
    /\ c \in DOMAIN channelMap \ closeVisited
    /\ chanCloseCalls' = [chanCloseCalls EXCEPT ![c] = @ + 1]
    /\ chanCloseErrs' = IF fails THEN chanCloseErrs \cup {c} ELSE chanCloseErrs
    /\ closeErr' = IF fails THEN "channelErr" ELSE "nil"
    /\ UNCHANGED <<closePc, closeSnap, closeRet, backendCloseCalls, backendCloseRes>>
    /\ UNCHANGED <<lockVars, queueVars, routerVars, pumpVars, taskVars, putVars>>
    /\ UNCHANGED <<heap, observers, pending, mutLog>>

\* a Close that keeps the last channel error when the backend closes cleanly
ErrAfterBackendClose_KeepsChannelErr(err, backendErr) ==
    IF backendErr = "nil" THEN err ELSE backendErr

\* err after `err = t.backend.Close()`
ErrAfterBackendClose(err, backendErr) == backendErr

\* the range is over (it produced every entry present when it started; entries
\* inserted during it may have been missed); lines 149-154
CloseBackend(fails) ==
    /\ closePc = "range"
    /\ closeSnap \subseteq closeVisited
    /\ backendCloseCalls' = backendCloseCalls + 1
    /\ backendCloseRes' = (IF fails THEN "backendErr" ELSE "nil")
    /\ closeErr' = ErrAfterBackendClose(closeErr, backendCloseRes')
    /\ closeRet' = closeErr'
    /\ closePc' = "done"
    /\ UNCHANGED closeSnap
    /\ UNCHANGED <<chanCloseCalls, chanCloseErrs>>
    /\ UNCHANGED <<lockVars, queueVars, routerVars, pumpVars, taskVars, putVars>>
    /\ UNCHANGED <<heap, observers, pending, mutLog>>

\* ---- a channel mutates a field of a message it was handed
MutFields == {"id", "body", "timestamp", "attempts"}
Mutated(m, field) ==
    CASE field = "id" -> [m EXCEPT !.id = 0]
      [] field = "body" -> [m EXCEPT !.body = <<"body", 0>>]
      [] field = "timestamp" -> [m EXCEPT !.timestamp = 0]
      [] OTHER -> [m EXCEPT !.attempts = @ + 1]

ChannelMutate(c, a, field) ==
    /\ Cardinality(mutLog) < MaxMutations
    /\ a \in SeqToSet(delivered[c])
    /\ <<c, IdOf(a), field>> \notin mutLog
    /\ heap' = [heap EXCEPT ![a] = Mutated(@, field)]
    /\ mutLog' = mutLog \cup {<<c, IdOf(a), field>>}
    /\ UNCHANGED <<lockVars, queueVars, routerVars, pumpVars, closeVars, taskVars, putVars>>
    /\ UNCHANGED <<observers, pending>>

\* ---- specifications
Next ==
    \/ \E name \in ChannelNames : GetChannelLock(name)
    \/ GetChannelBody
    \/ PutMessage
    \/ RouterObserve
    \/ RouterRecv
    \/ RouterInnerSelect
    \/ RouterDefault
    \/ RouterExit
    \/ PumpObserve
    \/ PumpRecvMemory
    \/ PumpRecvBackend
    \/ PumpExit
    \/ PumpRLock
    \/ PumpFanout
    \/ \E t \in tasks : TaskRun(t)
    \/ CloseCall
    \/ CloseRange
    \/ \E c \in ChannelNames, fails \in BOOLEAN : CloseChannel(c, fails)
    \/ \E fails \in BOOLEAN : CloseBackend(fails)

Spec == Init /\ [][Next]_vars

\* ---- the runs in which Close is never called
RunNext ==
    \/ \E name \in ChannelNames : GetChannelLock(name)
    \/ GetChannelBody
    \/ PutMessage
    \/ RouterObserve
    \/ RouterRecv
    \/ RouterInnerSelect
    \/ RouterDefault
    \/ PumpObserve
    \/ PumpRecvMemory
    \/ PumpRecvBackend
    \/ PumpRLock
    \/ PumpFanout
    \/ \E t \in tasks : TaskRun(t)

\* every dispatch goroutine the pump can spawn
AllTasks == {[ch |-> c, msg |-> Addr("c", id, c)] : c \in ChannelNames, id \in 1..MaxMsgs}

\* The Go scheduler runs every runnable goroutine; a select with several ready
\* cases picks among them at random, so no ready case is passed over forever;
\* a blocked RLock is granted when the writer unlocks.
LoopFairness ==
    /\ WF_vars(GetChannelBody)
    /\ WF_vars(RouterObserve)
    /\ WF_vars(RouterRecv)
    /\ WF_vars(RouterInnerSelect)
    /\ WF_vars(RouterDefault)
    /\ WF_vars(PumpObserve)
    /\ SF_vars(PumpRecvMemory)
    /\ SF_vars(PumpRecvBackend)
    /\ SF_vars(PumpRLock)
    /\ WF_vars(PumpFanout)

\* the dispatch goroutines of the channels in S get to run
TaskFairness(S) == \A t \in {u \in AllTasks : u.ch \in S} : WF_vars(TaskRun(t))

Fairness == LoopFairness /\ TaskFairness(ChannelNames)

FairSpec == Init /\ [][RunNext]_vars /\ Fairness

\* ---- the runs in which the channels mutate the messages they were handed
IsoNext ==
    \/ RunNext
    \/ \E c \in ChannelNames, field \in MutFields :
          \E a \in SeqToSet(delivered[c]) : ChannelMutate(c, a, field)

IsoSpec == Init /\ [][IsoNext]_vars

\* ---- the scenario of a topic that gets its first subscriber only after
\* MaxMsgs messages have been ingested: every PutMessage call has returned
AllIngested == nextId = MaxMsgs
\* the Router has placed or dropped every one of them
AllRouted == AllIngested /\ incomingMessageChan = <<>> /\ routerMsg = NoMsg

ScenarioNext ==
    \/ \E name \in ChannelNames : AllIngested /\ GetChannelLock(name)
    \/ GetChannelBody
    \/ PutMessage
    \/ RouterObserve
    \/ RouterRecv
    \/ RouterInnerSelect
    \/ RouterDefault
    \/ PumpObserve
    \/ PumpRecvMemory
    \/ PumpRecvBackend
    \/ PumpRLock
    \/ PumpFanout
    \/ \E t \in tasks : TaskRun(t)

ScenarioSpec == Init /\ [][ScenarioNext]_vars /\ Fairness

\* ---- the runs of a topic without subscribers whose producers make MaxPuts
\* calls, more than the ingest buffer holds, while Close may be called
IngestNext ==
    \/ PutMessageUpTo(MaxPuts)
    \/ RouterObserve
    \/ RouterRecv
    \/ RouterInnerSelect
    \/ RouterDefault
    \/ RouterExit
    \/ CloseCall
    \/ CloseRange
    \/ \E fails \in BOOLEAN : CloseBackend(fails)

IngestSpec == Init /\ [][IngestNext]_vars

\* ---- the runs in which the PutMessage of one channel never returns: its
\* dispatch goroutines stay blocked in the call for ever
SlowNext ==
    \/ \E name \in ChannelNames : GetChannelLock(name)
    \/ GetChannelBody
    \/ PutMessage
    \/ RouterObserve
    \/ RouterRecv
    \/ RouterInnerSelect
    \/ RouterDefault
    \/ PumpObserve
    \/ PumpRecvMemory
    \/ PumpRecvBackend
    \/ PumpRLock
    \/ PumpFanout
    \/ \E t \in tasks : t.ch \notin SlowChannels /\ TaskRun(t)

SlowFairness == LoopFairness /\ TaskFairness(ChannelNames \ SlowChannels)

SlowSpec == Init /\ [][SlowNext]_vars /\ SlowFairness

\* ---- what the claims speak of
Ids == 1..nextId
IncomingIds == {IdOf(incomingMessageChan[i]) : i \in 1..Len(incomingMessageChan)}
MemoryIds == [i \in 1..Len(memoryMsgChan) |-> IdOf(memoryMsgChan[i])]
BackendIds == [i \in 1..Len(backend) |-> backend[i][2]]
\* the Router has taken the message from the ingest buffer and is through with it
Routed(id) == id \in Ids /\ id \notin IncomingIds /\ IdOf(routerMsg) # id
\* the Router dropped the message on an encode or append error
Dropped(id) == \E kind \in {"encodeErr", "putErr"} : <<id, kind>> \in routeErr
\* the record of the message was torn, so that it will not decode
TornRecord(id) == <<id, "torn">> \in routeErr
PumpBackendIds == SelectIds(pumpLog, "backend")
PumpMemoryIds == SelectIds(pumpLog, "mem")

\* C2: every message the Router has taken was placed in exactly one of the
\* memory buffer and the backend queue, in neither only when an encode or
\* append error dropped it, and never in both; what the two queues hold is
\* what was placed in them.
C2_ExclusiveRouting ==
    /\ \A id \in Ids :
         Count(memLog, id) + Count(backendLog, id) =
            (IF Routed(id) /\ ~Dropped(id) THEN 1 ELSE 0)
    /\ \A i \in 1..Len(MemoryIds) : Count(memLog, MemoryIds[i]) = 1
    /\ \A i \in 1..Len(BackendIds) : Count(backendLog, BackendIds[i]) = 1

\* one message went to memory, one to the backend and one was dropped
C2_Witness ==
    /\ memLog # <<>>
    /\ \E id \in Ids : Count(backendLog, id) = 1 /\ ~TornRecord(id)
    /\ \E id \in Ids : Routed(id) /\ Dropped(id)

\* C3: the spilled messages are appended to the backend queue in the order
\* PutMessage accepted them (ids are assigned in that order), and the pump
\* reads them back in that same order: what the pump has read followed by what
\* the backend still holds is the sequence of appends.
C3_OverflowOrder ==
    /\ IsIncreasing(backendLog)
    /\ PumpBackendIds \o BackendIds = backendLog

\* two messages were spilled and the pump has read both back
C3_Witness ==
    /\ Len(PumpBackendIds) >= 2
    /\ Len(memoryMsgChan) = memQueueSize

\* C4: GetChannel creates at most one channel per name, every call for a name
\* returns that instance, and the pump is started exactly once, by the first
\* GetChannel call to run.
C4_IdempotentSubscription ==
    /\ \A name \in ChannelNames :
         /\ chanCreated[name] <= 1
         /\ Cardinality(returned[name]) <= 1
         /\ name \in DOMAIN channelMap => returned[name] = {channelMap[name]}
         /\ name \notin DOMAIN channelMap => returned[name] = {}
    /\ pumpStarts = (IF \E name \in ChannelNames : returned[name] # {} THEN 1 ELSE 0)
    /\ (pumpStarts = 0) = (pumpPc = "none")

\* every name has been requested, and one more call for a registered name
\* holds the lock
C4_Witness ==
    /\ DOMAIN channelMap = ChannelNames
    /\ rwWriter \in DOMAIN channelMap
    /\ pumpStarts = 1

\* C6: what Close returns is what the backend queue's Close returned: an error
\* if and only if that call failed, and never the error of a channel's Close.
C6_CloseErrorPropagation ==
    closePc = "done" =>
        /\ closeRet = backendCloseRes
        /\ closeRet \in {"nil", "backendErr"}

\* Close returned nil although the Close of every channel, the last one
\* included, had failed
C6_Witness ==
    /\ closePc = "done"
    /\ closeRet = "nil"
    /\ chanCloseErrs = ChannelNames

\* C5: once Close has returned, the Router loop and the pump loop have exited,
\* Close was invoked on every channel registered when the range over the
\* channels began, and the backend queue's Close was invoked exactly once.
C5_CleanShutdown ==
    closePc = "done" =>
        /\ routerPc = "exited"
        /\ pumpPc \in {"none", "exited"}
        /\ \A c \in closeSnap : chanCloseCalls[c] = 1
        /\ backendCloseCalls = 1

\* the position at which the pump received the message
PumpPos(id) == CHOOSE i \in 1..Len(pumpLog) : pumpLog[i][2] = id

\* C7: every channel's PutMessage is invoked with the copies in the order in
\* which the pump received the messages.
C7_PerChannelOrder ==
    \A c \in ChannelNames :
        \A i, j \in 1..Len(delivered[c]) :
            i < j => PumpPos(IdOf(delivered[c][i])) < PumpPos(IdOf(delivered[c][j]))

\* the goroutines that are reading or iterating t.channelMap
MapReaders ==
    (IF pumpPc = "fanout" THEN {"pump"} ELSE {}) \cup
    (IF closePc = "range" THEN {"close"} ELSE {})

\* C10: the map is inserted into only under the exclusive lock and read only
\* under the shared lock, so no goroutine iterates the map while a GetChannel
\* holds the exclusive lock for its insertion.
C10_LockDiscipline ==
    /\ rwWriter # 0 => rwReaders = {}
    /\ MapReaders \subseteq rwReaders
    /\ rwWriter # 0 => MapReaders = {}

\* the message passed to PutMessage as the id-th
Submitted(id) == heap[Addr("p", id, 0)]
\* the invocations of channel c's PutMessage with a copy of message id
Invocations(c, id) == {i \in 1..Len(delivered[c]) : IdOf(delivered[c][i]) = id}
\* the dispatch goroutines for (c, id) that have not run yet
Dispatching(c, id) == {t \in tasks : t.ch = c /\ IdOf(t.msg) = id}
SameMessage(m, n) == m.id = n.id /\ m.body = n.body /\ m.timestamp = n.timestamp
\* c's PutMessage has been invoked exactly once for message id, with a faithful copy
InvokedOnce(c, id) ==
    /\ Cardinality(Invocations(c, id)) = 1
    /\ \A i \in Invocations(c, id) : SameMessage(heap[delivered[c][i]], Submitted(id))
\* an encode, append or decode error hit the message
Errored(id) == Dropped(id) \/ TornRecord(id)

\* C1: a channel registered before message id is passed to PutMessage has its
\* PutMessage invoked for it at most once at any time and, unless an error hit
\* the message or Close was called, eventually exactly once, with a copy
\* carrying the id, body and timestamp of the submitted message.
C1_FanoutComplete ==
    /\ [](\A c \in ChannelNames, id \in 1..MaxMsgs :
            Cardinality(Invocations(c, id)) + Cardinality(Dispatching(c, id)) <= 1)
    /\ \A c \in ChannelNames, id \in 1..MaxMsgs :
         []((c \in DOMAIN channelMap /\ nextId < id) =>
              []((nextId >= id) =>
                   <>(InvokedOnce(c, id) \/ Errored(id) \/ closePc # "idle")))

\* every channel was registered before the last message was submitted, and
\* each has been handed its copy of it
C1_Witness ==
    /\ nextId = MaxMsgs
    /\ \A c \in ChannelNames : InvokedOnce(c, MaxMsgs) /\ ~Errored(MaxMsgs)

\* C8 speaks of a topic with memory capacity memQueueSize that ingests MaxMsgs
\* messages before its first subscriber arrives.
NoError == routeErr = {}
\* before the first subscription, with everything routed: the first
\* memQueueSize messages are in memory and the rest on the backend queue
C8_Placement ==
    (pumpStarts = 0 /\ AllRouted /\ NoError) =>
        /\ MemoryIds = [i \in 1..memQueueSize |-> i]
        /\ BackendIds = [i \in 1..(MaxMsgs - memQueueSize) |-> memQueueSize + i]
\* the pump receives every memory message before any backend message
C8_MemoryFirst ==
    \A i, j \in 1..Len(pumpLog) :
        (pumpLog[i][1] = "backend" /\ pumpLog[j][1] = "mem") => j < i
\* the pump receives the messages of each source in the order of ingestion
C8_SourceOrder == IsIncreasing(PumpMemoryIds) /\ IsIncreasing(PumpBackendIds)
\* once the first channel has subscribed, some channel is eventually handed
\* every message that no error hit
C8_AllDelivered ==
    [](pumpStarts = 1 =>
         <>(\E c \in ChannelNames : \A id \in 1..MaxMsgs : InvokedOnce(c, id) \/ Errored(id)))

\* C8 as claimed: placement, then memory drained in order before any backend
\* message, and every message delivered to the subscriber.
C8_DrainMemoryThenBackend ==
    /\ []C8_Placement
    /\ [](NoError => C8_MemoryFirst)
    /\ []C8_SourceOrder
    /\ C8_AllDelivered

\* C8 as amended: placement; the pump receives the memory messages in the
\* order of ingestion and the backend messages in the order of ingestion, with
\* no order between the two sources; every message that no error hit is
\* delivered to the subscriber.
C8_DrainEachSourceInOrder ==
    /\ []C8_Placement
    /\ []C8_SourceOrder
    /\ C8_AllDelivered

\* after the scenario's ingestion a channel subscribed and was handed all the
\* messages, the pump having read the backend queue to its end
C8_Witness ==
    /\ NoError
    /\ Len(PumpMemoryIds) = memQueueSize
    /\ Len(PumpBackendIds) = MaxMsgs - memQueueSize
    /\ \E c \in ChannelNames : \A id \in 1..MaxMsgs : InvokedOnce(c, id)

\* the message with this id as its producer made it
AsProduced(id) == NewMessage(id, BodyOf(id), ProducerTime(id))
\* the instances channel c's PutMessage was invoked with
HandedTo(c) == SeqToSet(delivered[c])
\* the instances the topic itself holds
TopicInstances ==
    SeqToSet(incomingMessageChan) \cup SeqToSet(memoryMsgChan) \cup {routerMsg, pumpMsg}

\* C9: the instance handed to a channel is handed to no other channel and is
\* not one the topic holds, and what a channel observes in its copy is the
\* message as it was produced, changed only by that channel's own mutations.
C9_CopyIsolation ==
    /\ \A c \in ChannelNames : HandedTo(c) \cap TopicInstances = {}
    /\ \A c, d \in ChannelNames : c # d => HandedTo(c) \cap HandedTo(d) = {}
    /\ \A c \in ChannelNames : \A a \in HandedTo(c) : \A field \in MutFields :
         heap[a][field] =
            IF <<c, IdOf(a), field>> \in mutLog
            THEN Mutated(AsProduced(IdOf(a)), field)[field]
            ELSE AsProduced(IdOf(a))[field]

\* two channels hold their copies of one message and one of them has mutated
\* its copy
C9_Witness ==
    \E c, d \in ChannelNames, id \in 1..MaxMsgs :
        /\ c # d
        /\ Invocations(c, id) # {} /\ Invocations(d, id) # {}
        /\ \E field \in MutFields : <<c, id, field>> \in mutLog

\* C11: while calls remain to be made, a PutMessage call can complete exactly
\* when the ingest buffer holds fewer than IncomingCap messages, and is blocked
\* exactly when it holds IncomingCap; a full buffer changes only by the Router
\* taking its first message, after which the blocked call can complete.
C11_Backpressure ==
    /\ [](nextId < MaxPuts =>
            ((ENABLED PutMessageUpTo(MaxPuts)) <=> Len(incomingMessageChan) < IncomingCap))
    /\ [][(Len(incomingMessageChan) = IncomingCap /\ incomingMessageChan' # incomingMessageChan)
            => (routerPc = "select" /\ incomingMessageChan' = Tail(incomingMessageChan))]_vars

\* the buffer is full again after the Router made room for a blocked producer,
\* and a further call is waiting
C11_Witness ==
    /\ Len(incomingMessageChan) = IncomingCap
    /\ nextId > IncomingCap
    /\ nextId < MaxPuts

\* the Router appends to the backend queue, or drops on an error of that path
BackendPathStep ==
    Len(backend') > Len(backend) \/ backendLog' # backendLog \/ routeErr' # routeErr
\* the inner select takes its default branch
DefaultChosen == routerPc = "inner" /\ routerPc' = "default"

\* C12 as claimed: the Router takes the default branch only when the memory
\* buffer holds memQueueSize messages, and no step appends to the backend
\* queue while the memory buffer has free capacity.
C12_MemoryPreferred ==
    [][/\ DefaultChosen => Len(memoryMsgChan) = memQueueSize
       /\ BackendPathStep => Len(memoryMsgChan) = memQueueSize]_vars

\* C12 as amended: the backend path is taken only by a Router whose
\* non-blocking send found the memory buffer holding memQueueSize messages
\* at the moment of the attempt, and an attempt that finds free capacity
\* puts the message in memory; nothing is said of the buffer at the later
\* moment of the append.
C12_MemoryTriedFirst ==
    [][/\ (routerPc # "default" /\ routerPc' = "default") =>
              (DefaultChosen /\ Len(memoryMsgChan) = memQueueSize)
       /\ BackendPathStep => routerPc = "default"
       /\ (routerPc = "inner" /\ routerPc' # "inner" /\ Len(memoryMsgChan) < memQueueSize) =>
              (memoryMsgChan' = Append(memoryMsgChan, routerMsg) /\ backend' = backend)]_vars

\* the Router found the memory buffer full and is in its default branch,
\* after an earlier spill, while the pump has emptied the memory buffer
C12_Witness ==
    /\ routerPc = "default"
    /\ memoryMsgChan = <<>>
    /\ backendLog # <<>>

\* C13: with the dispatch goroutines of the slow channel blocked for ever,
\* the pump ends every fan-out it begins and releases the shared lock, every
\* other channel registered before a message was submitted is handed that
\* message and the following ones (unless an error hit the message), the lock
\* is free again and again for a waiting GetChannel, and a GetChannel holding
\* the lock returns.
C13_SlowChannelIndependence ==
    /\ [](pumpPc = "fanout" => <>(pumpPc = "select" /\ "pump" \notin rwReaders))
    /\ \A c \in ChannelNames \ SlowChannels, id \in 1..MaxMsgs :
         []((c \in DOMAIN channelMap /\ nextId < id) =>
              []((nextId >= id) => <>(InvokedOnce(c, id) \/ Errored(id))))
    /\ []<>(rwWriter = 0 /\ rwReaders = {})
    /\ [](rwWriter # 0 => <>(rwWriter = 0))

\* every dispatch to the slow channel is blocked, another channel has been
\* handed every message, and a further GetChannel holds the exclusive lock
C13_Witness ==
    /\ \A s \in SlowChannels : \A id \in 1..MaxMsgs : Dispatching(s, id) # {}
    /\ \E c \in ChannelNames \ SlowChannels : \A id \in 1..MaxMsgs : InvokedOnce(c, id)
    /\ rwWriter # 0

\* the ids of the messages and records the pump has received
PumpIds == {pumpLog[i][2] : i \in 1..Len(pumpLog)}

\* C14: a message dropped by an encode or append error is in neither the
\* memory buffer nor the backend queue, is not put back in the ingest buffer,
\* never reaches the pump or a channel, the Router stays in its loop, and the
\* messages still in the ingest buffer are routed.
C14_RouterDropsOnError ==
    /\ [](\A id \in Ids : Dropped(id) =>
            /\ id \notin IncomingIds
            /\ id \notin SeqToSet(MemoryIds) \cup SeqToSet(BackendIds)
            /\ id \notin SeqToSet(memLog) \cup SeqToSet(backendLog)
            /\ id \notin PumpIds
            /\ \A c \in ChannelNames : Invocations(c, id) = {} /\ Dispatching(c, id) = {})
    /\ []((\E id \in Ids : Dropped(id)) => routerPc \in {"select", "inner", "default"})
    /\ \A id \in 1..MaxMsgs :
         []((id \in IncomingIds /\ \E d \in Ids : Dropped(d)) => <>Routed(id))

\* a message was dropped while the memory buffer was full, and the message
\* submitted after it was routed and handed to a channel
C14_Witness ==
    \E d, id \in Ids :
        /\ Dropped(d)
        /\ d < id
        /\ ~Errored(id)
        /\ \E c \in ChannelNames : InvokedOnce(c, id)

\* the pump takes a record that does not decode
DecodeErrorStep ==
    /\ pumpPc = "select"
    /\ backend # <<>>
    /\ backend' = Tail(backend)
    /\ ~DecodeOk(Head(backend))

\* C15: the step that reads a malformed record issues no dispatch and leaves
\* the pump at its select; no channel is ever handed anything for that
\* record, nor any message twice; and the pump goes on to receive the
\* messages that are queued in either source.
C15_PumpSkipsMalformed ==
    /\ [][DecodeErrorStep => (pumpPc' = "select" /\ tasks' = tasks /\ delivered' = delivered)]_vars
    /\ [](\A c \in ChannelNames, id \in Ids :
            /\ TornRecord(id) => (Invocations(c, id) = {} /\ Dispatching(c, id) = {})
            /\ Cardinality(Invocations(c, id)) + Cardinality(Dispatching(c, id)) <= 1)
    /\ \A id \in 1..MaxMsgs :
         []((/\ \E t \in PumpIds : TornRecord(t)
             /\ id \in SeqToSet(MemoryIds) \cup SeqToSet(BackendIds))
            => <>(id \in PumpIds))

\* the pump read a malformed record and then received the next message,
\* which a channel was handed
C15_Witness ==
    \E t, id \in PumpIds :
        /\ TornRecord(t)
        /\ PumpPos(t) < PumpPos(id)
        /\ \E c \in ChannelNames : InvokedOnce(c, id)

\* neither the Router loop nor the pump loop is running
NoLoopRunning == routerPc = "exited" /\ pumpPc \in {"none", "exited"}

\* C16: once Close has completed with both loops stopped, no later call
\* brings a loop back: no step leads from a closed topic without running
\* loops to one with a running loop.
C16_ClosedIsFinal ==
    [][(closePc = "done" /\ NoLoopRunning) => NoLoopRunning']_vars

\* C17: once Close has invoked the Close of a channel, no step invokes that
\* channel's PutMessage.
C17_NoDeliveryAfterChannelClose ==
    [][\A c \in ChannelNames : chanCloseCalls[c] > 0 => delivered'[c] = delivered[c]]_vars

\* C18: channels are never removed from the map and the pump exists only
\* once a channel is in it, so every fan-out ranges over at least one
\* channel; while no channel is registered the pump has received nothing and
\* every message the Router took and did not drop on an error is held in the
\* memory buffer or the backend queue.
C18_FanoutHasSubscriber ==
    /\ [][DOMAIN channelMap \subseteq DOMAIN channelMap']_vars
    /\ [](pumpPc # "none" => DOMAIN channelMap # {})
    /\ [](pumpPc = "fanout" => (fanTodo # {} /\ fanTodo = DOMAIN channelMap))
    /\ [](DOMAIN channelMap = {} =>
            /\ pumpLog = <<>>
            /\ \A id \in Ids : (Routed(id) /\ ~Dropped(id)) =>
                   id \in SeqToSet(MemoryIds) \cup SeqToSet(BackendIds))

\* the pump is fanning out its first message to a registered channel while
\* the backend queue holds every message that did not fit in memory
C18_Witness ==
    /\ pumpPc = "fanout"
    /\ fanTodo # {}
    /\ Len(pumpLog) = 1
    /\ NoError
    /\ Len(backend) = MaxMsgs - memQueueSize

\* the pump is fanning the message out, holding the shared lock
FanningOut(id) == pumpPc = "fanout" /\ IdOf(pumpMsg) = id
\* the pump has received the message and is past its fan-out
FannedOut(id) == id \in PumpIds /\ ~(pumpPc \in {"rlock", "fanout"} /\ IdOf(pumpMsg) = id)
\* the <<channel, id>> of a set of dispatches
Targets(ts) == {<<t.ch, IdOf(t.msg)>> : t \in ts}

\* C19: dispatches are issued only by the fan-out step, which holds the
\* shared lock and issues one for each channel then in the map; a channel's
\* PutMessage is invoked only by such a dispatch; a channel that is in the
\* map during the fan-out of a message is handed it, and one that is not in
\* the map when the fan-out is over is never handed it.
C19_TargetsAreRegistryAtFanout ==
    /\ [][/\ tasks' # tasks =>
              \/ /\ pumpPc = "fanout"
                 /\ "pump" \in rwReaders /\ rwWriter = 0
                 /\ tasks \subseteq tasks'
                 /\ Targets(tasks' \ tasks) = {<<c, IdOf(pumpMsg)>> : c \in DOMAIN channelMap}
              \/ \E t \in tasks : tasks' = tasks \ {t}
                                   /\ delivered' = [delivered EXCEPT ![t.ch] = Append(@, t.msg)]
          /\ delivered' # delivered => tasks' # tasks]_vars
    /\ \A c \in ChannelNames, id \in 1..MaxMsgs :
         /\ []((FanningOut(id) /\ c \in DOMAIN channelMap) => <>InvokedOnce(c, id))
         /\ []((FannedOut(id) /\ c \notin DOMAIN channelMap)
                 => [](Invocations(c, id) = {} /\ Dispatching(c, id) = {}))

\* a channel that registered after the fan-out of one message was not handed
\* it, while the channel registered before was; both were handed a later one
C19_Witness ==
    \E c, d \in ChannelNames, id, later \in 1..MaxMsgs :
        /\ id < later
        /\ InvokedOnce(c, id) /\ InvokedOnce(c, later)
        /\ d \in DOMAIN channelMap
        /\ Invocations(d, id) = {} /\ Dispatching(d, id) = {}
        /\ InvokedOnce(d, later)

IsPrefix(s, t) == Len(s) <= Len(t) /\ SubSeq(t, 1, Len(s)) = s
\* the messages the Router has taken from the ingest buffer
NumTaken == Len(memLog) + Len(backendLog) + Cardinality({id \in Ids : Dropped(id)})

\* C20: once the Router has exited it stays exited and routes nothing more:
\* the ingest buffer only grows, by the messages of the calls that return;
\* every message it had not taken is in the buffer, so at most IncomingCap
\* calls have returned since; and once the buffer is full no further call
\* can ever complete.
C20_PutAfterShutdown ==
    /\ [][routerPc = "exited" =>
            /\ routerPc' = "exited"
            /\ IsPrefix(incomingMessageChan, incomingMessageChan')
            /\ Len(incomingMessageChan') - Len(incomingMessageChan) = nextId' - nextId
            /\ UNCHANGED <<memLog, backendLog, routeErr>>]_vars
    /\ [](routerPc = "exited" =>
            /\ nextId - NumTaken = Len(incomingMessageChan)
            /\ Len(incomingMessageChan) <= IncomingCap)
    /\ []((routerPc = "exited" /\ Len(incomingMessageChan) = IncomingCap)
            => [](~ENABLED PutMessageUpTo(MaxPuts)))

\* Close has returned, the Router has exited, the ingest buffer has filled up
\* and a further PutMessage call is blocked
C20_Witness ==
    /\ closePc = "done"
    /\ routerPc = "exited"
    /\ Len(incomingMessageChan) = IncomingCap
    /\ nextId < MaxPuts

====
